---- MODULE Spec2Model ----
(***************************************************************************)
(* typing-racer: the TextManager of src/text.rs (one typing attempt, its   *)
(* per-letter ledger, the run log and the improvement resampler).          *)
(*                                                                         *)
(* A Rust String is modelled as the sequence of its chars; byte offsets    *)
(* and byte lengths are computed from each char's UTF-8 width, so that     *)
(* String::len (bytes) and chars().count() (code points) differ exactly    *)
(* where they differ in the program.  An f32 is modelled as an exact       *)
(* non-negative fraction <<n, d>>, with <<1, 0>> for +inf and <<0, 0>> for *)
(* NaN; f32 rounding is not modelled.                                      *)
(***************************************************************************)
EXTENDS Integers, Sequences, FiniteSets, TLC

VARIABLES
  current_text,   \* TextManager.current_text : String
  typed_text,     \* TextManager.typed_text : String
  start_time,     \* TextManager.start_time : Option<Instant>
  last_type,      \* TextManager.last_type : Option<Instant>
  typed_chars,    \* TextManager.typed_chars : u32
  typed_words,    \* TextManager.typed_words : f32
  accuracy,       \* TextManager.accuracy : f32
  log_file,       \* TextManager.log_file : Option<File> (TRUE = Some)
  letters,        \* TextManager.letters : HashMap<char, LetterInfo>
  log,            \* the contents of the file LOGFILE_PATH, a sequence of lines
  clock,          \* the monotonic clock (Instant::now()), in milliseconds
  improvement,    \* the last call of get_improvement: its arguments and result
  pc,             \* where UI is: "type" (UI::run's loop) or "end_run" (the
                  \* stats loop of UI::end_run, after TextManager::end_run)
  panicked        \* the process has panicked (unwrap, index, assert, overflow)

vars == <<current_text, typed_text, start_time, last_type, typed_chars,
          typed_words, accuracy, log_file, letters, log, clock, improvement,
          pc, panicked>>

attempt_vars == <<current_text, typed_text, start_time, last_type, typed_chars,
                  typed_words, accuracy, log_file, letters>>

----------------------------------------------------------------------------
(* Bounds of the model. *)

\* the clock stops advancing at MaxClock milliseconds
MaxClock == 2
\* a ledger entry's error count is not driven above MaxErrors
MaxErrors == 2
\* the log file holds at most MaxLog lines
MaxLog == 2
\* wall-clock seconds written by end_run are drawn from 0..MaxNow
MaxNow == 1
\* get_improvement is called with scale_x in 1..MaxScaleX
MaxScaleX == 3
\* get_improvement is called with scale_y in 0..MaxScaleY
MaxScaleY == 2
\* a log file found at start-up holds at most MaxInitLog lines
MaxInitLog == 3

\* usize::MAX, the value a saturating `as usize` cast gives for +inf
\* (shortened to TLC's integer width)
UsizeMax == 2147483647

----------------------------------------------------------------------------
(* chars and Strings *)

\* U+0434 is CYRILLIC SMALL LETTER DE, two bytes in UTF-8, as in the tests
Chars == {"a", "b", " ", "U0434"}

len_utf8(c) == IF c = "U0434" THEN 2 ELSE 1

is_alphanumeric(c) == c # " "

None == <<"None">>
Some(v) == <<"Some", v>>
is_some(o) == o[1] = "Some"
is_none(o) == o[1] = "None"
unwrap(o) == o[2]

RECURSIVE ByteLen(_)
\* String::len: the length in bytes
ByteLen(s) ==
  IF s = <<>> THEN 0 ELSE len_utf8(Head(s)) + ByteLen(Tail(s))

\* the byte offset of the k-th char of s (k in 1..Len(s)), as char_indices gives it
ByteOffset(s, k) == ByteLen(SubSeq(s, 1, k - 1))

\* str::is_char_boundary: the start, the end, or the first byte of a char
is_char_boundary(s, i) ==
  \/ i = 0
  \/ i = ByteLen(s)
  \/ \E k \in 1..Len(s) : ByteOffset(s, k) = i

RECURSIVE Bytes(_)
\* the UTF-8 encoding of s: byte j of char c is <<c, j>>
Bytes(s) ==
  IF s = <<>> THEN <<>>
  ELSE [j \in 1..len_utf8(Head(s)) |-> <<Head(s), j>>] \o Bytes(Tail(s))

----------------------------------------------------------------------------
(* f32 values as fractions *)

RECURSIVE GCD(_, _)
GCD(a, b) == IF b = 0 THEN a ELSE GCD(b, a % b)

FNaN == <<0, 0>>
FInf == <<1, 0>>
FZero == <<0, 1>>
FOne == <<1, 1>>

\* the f32 with value n / d (n, d >= 0), in lowest terms
Frac(n, d) ==
  IF d = 0 THEN (IF n = 0 THEN FNaN ELSE FInf)
  ELSE LET g == GCD(n, d) IN <<n \div g, d \div g>>

FromInt(n) == <<n, 1>>
is_nan(x) == x = FNaN
is_finite(x) == x[2] # 0

FDiv(x, y) == Frac(x[1] * y[2], x[2] * y[1])
FMul(x, y) == Frac(x[1] * y[1], x[2] * y[2])
FAdd(x, y) ==
  IF x = FInf /\ y = FInf THEN FInf
  ELSE Frac(x[1] * y[2] + y[1] * x[2], x[2] * y[2])
\* x - y for finite x >= y
FSub(x, y) == Frac(x[1] * y[2] - y[1] * x[2], x[2] * y[2])
\* x > y; false when either is NaN
FGt(x, y) == ~is_nan(x) /\ ~is_nan(y) /\ x[1] * y[2] > y[1] * x[2]
FLe(x, y) == ~is_nan(x) /\ ~is_nan(y) /\ x[1] * y[2] <= y[1] * x[2]
floor(x) == IF is_finite(x) THEN FromInt(x[1] \div x[2]) ELSE x
ceil(x) ==
  IF is_finite(x) THEN FromInt((x[1] + x[2] - 1) \div x[2]) ELSE x
\* `x as usize`: truncates, saturates, and sends NaN to 0
as_usize(x) ==
  IF is_nan(x) THEN 0
  ELSE IF x = FInf THEN UsizeMax
  ELSE x[1] \div x[2]

----------------------------------------------------------------------------
(* TextManager: the statistics of one attempt *)

\* the char '\0', the initial value of last_typed_real in update_stats
NUL == "NUL"

\* LetterInfo { duration: 0, count: 0, errors: 0 }
NewLetterInfo == [duration |-> 0, count |-> 0, errors |-> 0]

\* one iteration of the for loop of update_stats, for the j-th typed char
StatsStep(text, typed, j, st) ==
  IF j > Len(text) THEN st            \* text_iter.next() is None
  ELSE
    LET text_char == text[j]
        hit == typed[j] = text_char
        chars == st.curr_word_chars + 1
        correct == st.curr_word_correct + (IF hit THEN 1 ELSE 0)
        closes == st.in_word /\ ~is_alphanumeric(text_char)
        in1 == IF closes THEN FALSE ELSE st.in_word
    IN [typed_chars |-> st.typed_chars + (IF hit THEN 1 ELSE 0),
        typed_words |-> IF closes
                          THEN FAdd(st.typed_words, Frac(correct, chars))
                          ELSE st.typed_words,
        in_word |-> IF ~in1 /\ is_alphanumeric(text_char) THEN TRUE ELSE in1,
        curr_word_chars |-> chars,
        curr_word_correct |-> correct,
        total_correct |-> st.total_correct + (IF hit THEN 1 ELSE 0),
        last_typed_real |-> text_char]

RECURSIVE StatsLoop(_, _, _, _)
StatsLoop(text, typed, j, st) ==
  IF j > Len(typed) THEN st
  ELSE StatsLoop(text, typed, j + 1, StatsStep(text, typed, j, st))

\* the locals of update_stats after its for loop over typed
StatsScan(text, typed) ==
  StatsLoop(text, typed, 1,
            [typed_chars |-> 0, typed_words |-> FZero, in_word |-> FALSE,
             curr_word_chars |-> 0, curr_word_correct |-> 0,
             total_correct |-> 0, last_typed_real |-> NUL])

\* the next item of text_iter after the loop: it has yielded
\* min(typed, text) chars
TextIterNext(text, typed) ==
  IF Len(typed) < Len(text) THEN Some(text[Len(typed) + 1]) ELSE None

\* self.accuracy = total_correct as f32 / self.typed_text.len() as f32
AccuracyOf(total_correct, typed) == Frac(total_correct, ByteLen(typed))

\* letters.entry(key).or_insert(LetterInfo {0, 0, 0})
EntryOrInsert(map, key) ==
  IF key \in DOMAIN map THEN map
  ELSE [k \in DOMAIN map \cup {key} |->
          IF k = key THEN NewLetterInfo ELSE map[k]]

\* the has_inserted branch charging a mismatch with the elapsed time too
LedgerInsert_ChargeMismatch(map, key, last_typed, elapsed) ==
  LET m == EntryOrInsert(map, key)
  IN IF last_typed = key
       THEN [m EXCEPT ![key].count = @ + 1, ![key].duration = @ + elapsed]
       ELSE [m EXCEPT ![key].errors = @ + 1, ![key].duration = @ + elapsed]

\* the has_inserted branch of update_stats on the ledger
LedgerInsert(map, key, last_typed, elapsed) ==
  LET m == EntryOrInsert(map, key)
  IN IF last_typed = key
       THEN [m EXCEPT ![key].count = @ + 1, ![key].duration = @ + elapsed]
       ELSE [m EXCEPT ![key].errors = @ + 1]

\* info.count -= 1: on 0 a debug build panics and a release build wraps to
\* usize::MAX; the set of the outcomes the builds can produce (None = panic)
CountMinusOne(count) ==
  IF count = 0 THEN {None, Some(UsizeMax)} ELSE {Some(count - 1)}

\* the else branch of update_stats lowering the count whatever char was popped
LedgerRemove_AnyChar(map, nxt, last_typed) ==
  IF is_none(nxt) THEN {None}
  ELSE IF unwrap(nxt) \notin DOMAIN map THEN {None}
  ELSE { IF is_none(n) THEN None
         ELSE Some([map EXCEPT ![unwrap(nxt)].count = unwrap(n)]) :
           n \in CountMinusOne(map[unwrap(nxt)].count) }

\* the else branch of update_stats on the ledger: the ledgers it can leave
\* (None = panic).  `nxt` is text_iter.next() after the loop.
LedgerRemove(map, nxt, last_typed) ==
  IF is_none(nxt) THEN {None}                      \* text_iter.next().unwrap()
  ELSE IF last_typed # unwrap(nxt) THEN {Some(map)}
  ELSE IF unwrap(nxt) \notin DOMAIN map THEN {None}   \* get_mut(..).unwrap()
  ELSE { IF is_none(n) THEN None
         ELSE Some([map EXCEPT ![unwrap(nxt)].count = unwrap(n)]) :
           n \in CountMinusOne(map[unwrap(nxt)].count) }

\* update_stats on the TextManager tm, whose typed_text already holds the
\* push or pop, at time `now`: the set of the TextManagers it can leave.  A
\* panic keeps the fields assigned before it (typed_chars, typed_words).
update_stats(tm, has_inserted, last_typed, now) ==
  LET s == StatsScan(tm.current_text, tm.typed_text)
      t1 == [tm EXCEPT !.typed_chars = s.typed_chars,
                       !.typed_words = s.typed_words]
      acc == AccuracyOf(s.total_correct, tm.typed_text)
  IN IF has_inserted
       THEN IF s.last_typed_real = NUL \/ is_none(tm.last_type)
              THEN \* assert_ne!(last_typed_real, '\0'), last_type.unwrap()
                   { [t1 EXCEPT !.panicked = TRUE] }
              ELSE { [t1 EXCEPT
                        !.letters = LedgerInsert(tm.letters, s.last_typed_real,
                                                 last_typed,
                                                 now - unwrap(tm.last_type)),
                        !.last_type = Some(now),
                        !.accuracy = acc] }
       ELSE { IF is_none(m)
                THEN [t1 EXCEPT !.panicked = TRUE]
                ELSE [t1 EXCEPT !.letters = unwrap(m), !.accuracy = acc] :
              m \in LedgerRemove(tm.letters,
                                 TextIterNext(tm.current_text, tm.typed_text),
                                 last_typed) }

\* the guard of type_char: self.typed_text.len() < self.current_text.len()
HasRoom(typed, text) == ByteLen(typed) < ByteLen(text)

\* TextManager::type_char on tm at time `now`
type_char(tm, c, now) ==
  LET t1 == IF is_none(tm.start_time)
              THEN [tm EXCEPT !.start_time = Some(now), !.last_type = Some(now)]
              ELSE tm
  IN IF HasRoom(t1.typed_text, t1.current_text)
       THEN update_stats([t1 EXCEPT !.typed_text = Append(@, c)], TRUE, c, now)
       ELSE {t1}

\* TextManager::del_char on tm at time `now`
del_char(tm, now) ==
  IF tm.typed_text # <<>>
    THEN update_stats(
           [tm EXCEPT !.typed_text = SubSeq(@, 1, Len(@) - 1)],
           FALSE, tm.typed_text[Len(tm.typed_text)], now)
    ELSE {tm}

\* get_accuracy without its NaN guard
get_accuracy_NoNanGuard(tm) == Some(tm.accuracy)

\* TextManager::get_accuracy
get_accuracy(tm) == IF is_nan(tm.accuracy) THEN None ELSE Some(tm.accuracy)

\* start_time.elapsed().as_millis() as f32 / 1000. / 60.
Mins(start, now) ==
  FDiv(FDiv(FromInt(now - start), FromInt(1000)), FromInt(60))

\* TextManager::get_cpm
get_cpm(tm, now) ==
  IF is_some(tm.start_time)
    THEN Some(FDiv(FromInt(tm.typed_chars), Mins(unwrap(tm.start_time), now)))
    ELSE None

\* TextManager::get_wpm
get_wpm(tm, now) ==
  IF is_some(tm.start_time)
    THEN Some(FDiv(tm.typed_words, Mins(unwrap(tm.start_time), now)))
    ELSE None

\* TextManager::new; open_ok says whether the log file could be opened for
\* appending (it is created when absent, and never truncated)
new(text, open_ok) ==
  [current_text |-> text,
   typed_text |-> <<>>,
   start_time |-> None,
   last_type |-> None,
   typed_words |-> FZero,
   typed_chars |-> 0,
   accuracy |-> FZero,
   log_file |-> open_ok,
   letters |-> <<>>,
   panicked |-> FALSE]

----------------------------------------------------------------------------
(* The run log: one line per record, the fields separated by spaces.  A     *)
(* line is the sequence of its fields; a field is <<kind, value>>, kind the  *)
(* shape of its text: "int" (digits only), "dec" (a decimal number with a    *)
(* point), "NaN", "inf", or "junk" (anything else).                          *)

\* format!("{:?}", n) for n : u64
FmtU64(n) == <<"int", FromInt(n)>>

\* format!("{:?}", x) for x : f32: "NaN", "inf", or the shortest decimal that
\* reads back as x, which always holds a point ("1.0")
FmtF32(x) ==
  IF is_nan(x) THEN <<"NaN", FNaN>>
  ELSE IF x = FInf THEN <<"inf", FInf>>
  ELSE <<"dec", x>>

\* str::parse::<u64>: digits only (None = Err)
ParseU64(field) ==
  IF field[1] = "int" THEN Some(field[2][1]) ELSE None

\* str::parse::<f32>: a decimal number with or without a point, "NaN", "inf"
ParseF32(field) ==
  IF field[1] \in {"int", "dec"} THEN Some(field[2])
  ELSE IF field[1] = "NaN" THEN Some(FNaN)
  ELSE IF field[1] = "inf" THEN Some(FInf)
  ELSE None

\* the record with cpm written before wpm
FormatRecord_CpmFirst(now, acc, wpm, cpm) ==
  <<FmtU64(now), FmtF32(acc), FmtF32(cpm), FmtF32(wpm)>>

\* format!("{:?} {:?} {:?} {:?}\n", now, acc, wpm, cpm)
FormatRecord(now, acc, wpm, cpm) ==
  <<FmtU64(now), FmtF32(acc), FmtF32(wpm), FmtF32(cpm)>>

\* TextManager::end_run on tm: the log file it leaves.  wall_now is
\* SystemTime::now() in seconds, now the monotonic clock, write_ok whether
\* write_all succeeds.
end_run(tm, file, wall_now, now, write_ok) ==
  LET acc == get_accuracy(tm)
      wpm == get_wpm(tm, now)
      cpm == get_cpm(tm, now)
  IN IF tm.log_file
       THEN IF is_some(acc) /\ is_some(wpm) /\ is_some(cpm)
              THEN IF write_ok
                     THEN Append(file, FormatRecord(wall_now, unwrap(acc),
                                                    unwrap(wpm), unwrap(cpm)))
                     ELSE file
              ELSE file
       ELSE file

\* the DataPoint of one line, or None where get_raw_improvement returns None
ParseLine(line) ==
  IF Len(line) < 4 THEN None          \* vec.get(3) is None
  ELSE
    LET time == ParseU64(line[1])
        acc == ParseF32(line[2])
        wpm == ParseF32(line[3])
        cpm == ParseF32(line[4])
    IN IF is_some(time) /\ is_some(acc) /\ is_some(wpm) /\ is_some(cpm)
         THEN Some([cpm |-> unwrap(cpm), time |-> unwrap(time),
                    accuracy |-> unwrap(acc), wpm |-> unwrap(wpm)])
         ELSE None

RECURSIVE ParseLines_SkipBad(_, _)
\* the loop skipping a line that is no record instead of returning None
ParseLines_SkipBad(lines, result) ==
  IF lines = <<>> THEN Some(result)
  ELSE LET point == ParseLine(Head(lines))
       IN ParseLines_SkipBad(Tail(lines),
                             IF is_none(point) THEN result
                             ELSE Append(result, unwrap(point)))

RECURSIVE ParseLines(_, _)
\* the for loop of get_raw_improvement over the lines left, result so far
ParseLines(lines, result) ==
  IF lines = <<>> THEN Some(result)
  ELSE LET point == ParseLine(Head(lines))
       IN IF is_none(point) THEN None
          ELSE ParseLines(Tail(lines), Append(result, unwrap(point)))

\* TextManager::get_raw_improvement; open_ok says whether File::open succeeds
\* (a read error on a line returns None as a failed open does)
get_raw_improvement(file, open_ok) ==
  IF open_ok THEN ParseLines(file, <<>>) ELSE None

RECURSIVE MaxCpm(_, _)
\* the first loop of get_improvement: max over the points, starting from 0.
MaxCpm(raw_data, max) ==
  IF raw_data = <<>> THEN max
  ELSE MaxCpm(Tail(raw_data),
              IF FGt(Head(raw_data).cpm, max) THEN Head(raw_data).cpm ELSE max)

\* the bucket value without the division by max
Scaled_NoMax(cpm, max, scale_y) == as_usize(FMul(cpm, FromInt(scale_y)))

\* (cpm / max * (scale_y as f32)) as usize
Scaled(cpm, max, scale_y) == as_usize(FMul(FDiv(cpm, max), FromInt(scale_y)))

\* i as f32 / (scale_x - 1) as f32 * (data_len - 1) as f32
FIdx(i, scale_x, data_len) ==
  FMul(FDiv(FromInt(i), FromInt(scale_x - 1)), FromInt(data_len - 1))

RECURSIVE SumCpm(_, _, _)
\* the sum of raw_data[i].cpm for i in idx1..idx2 + 1 (0-based)
SumCpm(raw_data, idx1, idx2) ==
  IF idx1 > idx2 THEN FZero
  ELSE FAdd(raw_data[idx1 + 1].cpm, SumCpm(raw_data, idx1 + 1, idx2))

Max2(a, b) == IF a > b THEN a ELSE b
Min2(a, b) == IF a < b THEN a ELSE b

\* the value get_improvement pushes for bucket i (None = panic)
Bucket(raw_data, max, i, scale_x, scale_y) ==
  LET data_len == Len(raw_data)
  IN IF data_len = scale_x
       THEN \* exact
            Some(Scaled(raw_data[i + 1].cpm, max, scale_y))
     ELSE IF data_len < scale_x
       THEN \* interpolate
            IF data_len = 0
              THEN \* data_len - 1 overflows (debug build) or wraps, and then
                   \* raw_data[0] is out of bounds (release build)
                   None
              ELSE
                LET f_idx == FIdx(i, scale_x, data_len)
                    c1 == raw_data[as_usize(floor(f_idx)) + 1].cpm
                    c2 == raw_data[as_usize(ceil(f_idx)) + 1].cpm
                    dist == FSub(f_idx, floor(f_idx))
                    cpm == FAdd(FMul(FSub(FOne, dist), c1), FMul(dist, c2))
                IN Some(Scaled(cpm, max, scale_y))
       ELSE \* average
            LET idx1 == as_usize(FIdx(Max2(0, i - 1), scale_x, data_len))
                raw2 == as_usize(ceil(FIdx(Min2(scale_x - 1, i + 1), scale_x,
                                           data_len)))
                idx2 == IF raw2 >= data_len THEN data_len - 1 ELSE raw2
                cpm == FDiv(SumCpm(raw_data, idx1, idx2),
                            FromInt(idx2 + 1 - idx1))
            IN Some(Scaled(cpm, max, scale_y))

RECURSIVE Buckets(_, _, _, _, _, _)
\* the for loop of get_improvement from bucket i on (None = panic)
Buckets(raw_data, max, i, scale_x, scale_y, result) ==
  IF i >= scale_x THEN Some(result)
  ELSE LET b == Bucket(raw_data, max, i, scale_x, scale_y)
       IN IF is_none(b) THEN None
          ELSE Buckets(raw_data, max, i + 1, scale_x, scale_y,
                       Append(result, unwrap(b)))

\* what a call of get_improvement ends with: the Option it returns, or a panic
Returns(v) == <<"returns", v>>
Panics == <<"panics">>

\* TextManager::get_improvement
get_improvement(file, open_ok, scale_x, scale_y) ==
  LET raw == get_raw_improvement(file, open_ok)
  IN IF is_some(raw)
       THEN LET series == Buckets(unwrap(raw), MaxCpm(unwrap(raw), FZero), 0,
                                  scale_x, scale_y, <<>>)
            IN IF is_none(series) THEN Panics ELSE Returns(series)
       ELSE Returns(None)

----------------------------------------------------------------------------
(* The state machine: the TextManager that UI holds, driven by its keys *)

\* the TextManager in the current state
self ==
  [current_text |-> current_text,
   typed_text |-> typed_text,
   start_time |-> start_time,
   last_type |-> last_type,
   typed_words |-> typed_words,
   typed_chars |-> typed_chars,
   accuracy |-> accuracy,
   log_file |-> log_file,
   letters |-> letters,
   panicked |-> panicked]

\* the next state holds the TextManager tm
Becomes(tm) ==
  /\ current_text' = tm.current_text
  /\ typed_text' = tm.typed_text
  /\ start_time' = tm.start_time
  /\ last_type' = tm.last_type
  /\ typed_words' = tm.typed_words
  /\ typed_chars' = tm.typed_chars
  /\ accuracy' = tm.accuracy
  /\ log_file' = tm.log_file
  /\ letters' = tm.letters
  /\ panicked' = tm.panicked

\* the current state holds the TextManager tm
Holds(tm) ==
  /\ current_text = tm.current_text
  /\ typed_text = tm.typed_text
  /\ start_time = tm.start_time
  /\ last_type = tm.last_type
  /\ typed_words = tm.typed_words
  /\ typed_chars = tm.typed_chars
  /\ accuracy = tm.accuracy
  /\ log_file = tm.log_file
  /\ letters = tm.letters
  /\ panicked = tm.panicked

\* the model's cap on the error counters: no ledger entry's error count is
\* taken above MaxErrors
WithinErrorBound(tm) ==
  \A k \in DOMAIN tm.letters : tm.letters[k].errors <= MaxErrors

\* UI::type_loop on Input::Character(c)
TypeChar(c) ==
  /\ ~panicked
  /\ pc = "type"
  /\ \E tm \in type_char(self, c, clock) :
       /\ WithinErrorBound(tm)
       /\ Becomes(tm)
  /\ UNCHANGED <<log, clock, improvement, pc>>

\* UI::type_loop on Input::KeyBackspace
DelChar ==
  /\ ~panicked
  /\ pc = "type"
  /\ \E tm \in del_char(self, clock) : Becomes(tm)
  /\ UNCHANGED <<log, clock, improvement, pc>>

\* TextManager::new(self.categories.get_text(..)) replaces the TextManager:
\* in UI::end_run on 'q' in its stats loop, and in UI::command_loop on 'c';
\* assert!(current_text.len() > 0) panics on an empty text
NewAttempt(text, open_ok) ==
  /\ ~panicked
  /\ IF ByteLen(text) > 0
       THEN Becomes(new(text, open_ok))
       ELSE /\ panicked' = TRUE
            /\ UNCHANGED attempt_vars
  /\ pc' = "type"
  /\ UNCHANGED <<log, clock, improvement>>

\* UI::command_loop on 'e': UI::end_run calls TextManager::end_run and
\* enters its stats loop; the log file is not grown beyond MaxLog lines
EndRun(wall_now, write_ok) ==
  /\ ~panicked
  /\ pc = "type"
  /\ Len(log) < MaxLog
  /\ log' = end_run(self, log, wall_now, clock, write_ok)
  /\ pc' = "end_run"
  /\ UNCHANGED <<attempt_vars, panicked, clock, improvement>>

\* UI::command_loop on 't': UI::show_improvement calls
\* get_improvement(max_x, max_y - 2)
GetImprovement(scale_x, scale_y, open_ok) ==
  /\ ~panicked
  /\ pc = "type"
  /\ LET out == get_improvement(log, open_ok, scale_x, scale_y)
     IN /\ improvement' = [called |-> TRUE, opened |-> open_ok,
                           scale_x |-> scale_x, scale_y |-> scale_y,
                           out |-> out]
        /\ panicked' = (out = Panics)
  /\ UNCHANGED <<attempt_vars, log, clock, pc>>

\* time passes
Tick ==
  /\ ~panicked
  /\ clock < MaxClock
  /\ clock' = clock + 1
  /\ UNCHANGED <<attempt_vars, log, improvement, pc, panicked>>

----------------------------------------------------------------------------
(* TextManager::get_text_parts: the spans are byte ranges <<lo, hi>> of      *)
(* current_text, as the &str slices current_text[lo..hi] are                 *)

\* get_next_boundary without its loop: the byte index as it is
get_next_boundary_NoLoop(text, i) == i

RECURSIVE get_next_boundary(_, _)
\* TextManager::get_next_boundary
get_next_boundary(text, i) ==
  IF is_char_boundary(text, i) THEN i ELSE get_next_boundary(text, i + 1)

\* PartsStep without `start = bound` where a mismatch closes a span
PartsStep_KeepStart(text, typed, j, st) ==
  IF j > Len(text) THEN st
  ELSE
    LET text_i == ByteOffset(text, j)
        hit == typed[j] = text[j]
        st1 == [st EXCEPT !.last_idx = text_i]
    IN IF st1.current_right /\ ~hit
         THEN [st1 EXCEPT !.result = Append(@, <<st1.start, text_i>>),
                          !.current_right = FALSE]
         ELSE IF ~st1.current_right /\ hit
         THEN [st1 EXCEPT !.result = Append(@, <<st1.start, text_i>>),
                          !.start = text_i,
                          !.current_right = TRUE]
         ELSE st1

\* one iteration of the for loop of get_text_parts, for the j-th typed char
PartsStep(text, typed, j, st) ==
  IF j > Len(text) THEN st            \* text_iter.next() is None
  ELSE
    LET text_i == ByteOffset(text, j)
        text_char == text[j]
        c == typed[j]
        st1 == [st EXCEPT !.last_idx = text_i]
        st2 == IF st1.current_right /\ c # text_char
                 THEN LET bound == get_next_boundary(text, text_i)
                      IN [st1 EXCEPT !.result = Append(@, <<st1.start, bound>>),
                                     !.start = bound,
                                     !.current_right = FALSE]
                 ELSE st1
        st3 == IF ~st2.current_right /\ c = text_char
                 THEN LET bound == get_next_boundary(text, text_i)
                      IN [st2 EXCEPT !.result = Append(@, <<st2.start, bound>>),
                                     !.start = bound,
                                     !.current_right = TRUE]
                 ELSE st2
    IN st3

RECURSIVE PartsLoop(_, _, _, _)
PartsLoop(text, typed, j, st) ==
  IF j > Len(typed) THEN st
  ELSE PartsLoop(text, typed, j + 1, PartsStep(text, typed, j, st))

\* get_text_parts ending the typed spans at last_idx instead of last_idx + 1
TextParts_EndAtLastIdx(text, typed) ==
  LET st == PartsLoop(text, typed, 1,
                      [result |-> <<>>, current_right |-> TRUE, start |-> 0,
                       last_idx |-> -1])
      end == get_next_boundary(text, Max2(st.last_idx, 0))
  IN st.result \o << <<st.start, end>>, <<end, ByteLen(text)>> >>

\* the byte ranges of the slices get_text_parts returns for (text, typed)
TextParts(text, typed) ==
  LET st == PartsLoop(text, typed, 1,
                      [result |-> <<>>, current_right |-> TRUE, start |-> 0,
                       last_idx |-> -1])
      end == get_next_boundary(text, st.last_idx + 1)
  IN st.result \o << <<st.start, end>>, <<end, ByteLen(text)>> >>

\* get_text_parts with the next pending char as the span before the last
get_text_parts_PendingSpan(tm) ==
  LET parts == TextParts(tm.current_text, tm.typed_text)
      n == Len(parts)
      lo == parts[n][1]
      hi == get_next_boundary(tm.current_text,
                              Min2(lo + 1, ByteLen(tm.current_text)))
  IN SubSeq(parts, 1, n - 1)
       \o << <<lo, hi>>, <<hi, ByteLen(tm.current_text)>> >>

\* TextManager::get_text_parts
get_text_parts(tm) == TextParts(tm.current_text, tm.typed_text)

\* &text[lo..hi] does not panic: lo <= hi, both char boundaries of text
SliceOk(text, r) ==
  /\ r[1] <= r[2]
  /\ is_char_boundary(text, r[1])
  /\ is_char_boundary(text, r[2])

\* the bytes of &text[lo..hi]
Slice(text, r) == SubSeq(Bytes(text), r[1] + 1, r[2])

----------------------------------------------------------------------------
(* The attempt under the keys of UI::type_loop: Spec.  The statistics of an  *)
(* attempt do not read the log, which SpecLog and SpecResample cover.        *)

\* the texts an attempt is constructed on
Targets == { <<"U0434", "a">>, <<"a", " ", "a">>, <<"a", "b">> }

\* the chars typed
Keys == {"a", " ", "U0434"}

\* no call of get_improvement yet
NoImprovement ==
  [called |-> FALSE, opened |-> FALSE, scale_x |-> 0, scale_y |-> 0,
   out |-> Returns(None)]

Init ==
  /\ \E text \in Targets, open_ok \in BOOLEAN :
       Holds(new(text, open_ok))
  /\ log = <<>>
  /\ clock = 0
  /\ improvement = NoImprovement
  /\ pc = "type"

Next ==
  \/ \E c \in Keys : TypeChar(c)
  \/ DelChar
  \/ Tick
  \/ \E text \in Targets, open_ok \in BOOLEAN : NewAttempt(text, open_ok)

Spec == Init /\ [][Next]_vars

----------------------------------------------------------------------------
(* The run log over successive attempts: SpecLog *)

\* the text and the keys of the attempts that are logged
LogTargets == { <<"a">> }
LogKeys == {"a", " "}

\* a record an earlier session wrote
OldRecord == FormatRecord(0, FOne, FromInt(2), FromInt(3))

\* the log file at start-up: created empty, or left by an earlier session
StartLogs == { <<>>, <<OldRecord>> }

InitLog ==
  /\ \E text \in LogTargets, open_ok \in BOOLEAN :
       Holds(new(text, open_ok))
  /\ log \in StartLogs
  /\ clock = 0
  /\ improvement = NoImprovement
  /\ pc = "type"

NextLog ==
  \/ \E c \in LogKeys : TypeChar(c)
  \/ DelChar
  \/ Tick
  \/ \E wall_now \in 0..MaxNow, write_ok \in BOOLEAN : EndRun(wall_now, write_ok)
  \/ \E text \in LogTargets, open_ok \in BOOLEAN : NewAttempt(text, open_ok)

SpecLog == InitLog /\ [][NextLog]_vars

----------------------------------------------------------------------------
(* The resampler over the log files it can find: SpecResample *)

\* lines of a log file: records as end_run writes them (cpm 0, 3, inf and
\* NaN), a record written by hand in whole numbers (cpm 2), a line cut short,
\* and a line whose cpm is not a number
SampleLines ==
  { FormatRecord(0, FOne, FZero, FZero),
    FormatRecord(1, FOne, FromInt(2), FromInt(3)),
    FormatRecord(0, FOne, FNaN, FInf),
    FormatRecord(0, FZero, FNaN, FNaN),
    <<FmtU64(1), FmtU64(1), FmtU64(1), FmtU64(2)>>,
    <<FmtU64(1), FmtF32(FOne), FmtF32(FOne)>>,
    <<FmtU64(1), FmtF32(FOne), FmtF32(FOne), <<"junk", FNaN>>>> }

\* the log files of at most MaxInitLog of these lines
SampleLogs == UNION { [1..n -> SampleLines] : n \in 0..MaxInitLog }

InitResample ==
  /\ \E text \in LogTargets : Holds(new(text, TRUE))
  /\ log \in SampleLogs
  /\ clock = 0
  /\ improvement = NoImprovement
  /\ pc = "type"

NextResample ==
  \E scale_x \in 1..MaxScaleX, scale_y \in 0..MaxScaleY, open_ok \in BOOLEAN :
    GetImprovement(scale_x, scale_y, open_ok)

SpecResample == InitResample /\ [][NextResample]_vars

----------------------------------------------------------------------------
(* Properties of the attempt, checked under Spec *)

\* the count and the error count the ledger holds for char k (0 = no entry)
CountOf(map, k) == IF k \in DOMAIN map THEN map[k].count ELSE 0
ErrorsOf(map, k) == IF k \in DOMAIN map THEN map[k].errors ELSE 0

RECURSIVE ConcatSlices(_, _)
\* the bytes of the slices of text at the byte ranges `parts`, concatenated
ConcatSlices(text, parts) ==
  IF parts = <<>> THEN <<>>
  ELSE Slice(text, Head(parts)) \o ConcatSlices(text, Tail(parts))

\* C1: after any sequence of type_char and del_char calls, typed holds at
\* most as many code points as target.
C1_TypedWithinTarget == Len(typed_text) <= Len(current_text)

\* C2: get_accuracy() is None if and only if typed is empty, and a value it
\* returns lies in [0, 1].
C2_AccuracyDefinedIffTyped ==
  /\ is_none(get_accuracy(self)) <=> typed_text = <<>>
  /\ is_some(get_accuracy(self)) =>
       /\ FLe(FZero, unwrap(get_accuracy(self)))
       /\ FLe(unwrap(get_accuracy(self)), FOne)

\* C3: where typed is not full, type_char(c) followed at once by del_char()
\* restores correct_count, accuracy, and every ledger correct-count and
\* error-count, whether or not c matches the target.
C3_TypeThenDeleteRestores ==
  (~panicked /\ Len(typed_text) < Len(current_text)) =>
    \A c \in Keys :
      \A t1 \in type_char(self, c, clock) :
        \A t2 \in del_char(t1, clock) :
          /\ ~t2.panicked
          /\ t2.typed_chars = typed_chars
          /\ get_accuracy(t2) = get_accuracy(self)
          /\ \A k \in Chars :
               /\ CountOf(t2.letters, k) = CountOf(letters, k)
               /\ ErrorsOf(t2.letters, k) = ErrorsOf(letters, k)

\* C4: the spans of get_text_parts, concatenated in order, are the target
\* text exactly.
C4_PartsConcatToTarget ==
  ConcatSlices(current_text, get_text_parts(self)) = Bytes(current_text)

\* a multi-byte target wholly covered by typed, with a mismatch in it
C4_Witness ==
  /\ "U0434" \in {current_text[k] : k \in 1..Len(current_text)}
  /\ Len(typed_text) = Len(current_text)
  /\ Len(get_text_parts(self)) >= 3
  /\ ConcatSlices(current_text, get_text_parts(self)) = Bytes(current_text)

\* C5: every span of get_text_parts starts and ends on a char boundary of
\* the target, in order, so that slicing the target there does not panic.
C5_PartsOnCharBoundaries ==
  \A k \in 1..Len(get_text_parts(self)) :
    SliceOk(current_text, get_text_parts(self)[k])

\* the last target char that typed covers is a two-byte char, typed wrongly
\* with a one-byte char
C5_Witness ==
  /\ typed_text # <<>>
  /\ Len(typed_text) <= Len(current_text)
  /\ current_text[Len(typed_text)] = "U0434"
  /\ typed_text[Len(typed_text)] = "a"
  /\ \A k \in 1..Len(get_text_parts(self)) :
       SliceOk(current_text, get_text_parts(self)[k])

----------------------------------------------------------------------------
(* Properties of the run log, checked under SpecLog *)

\* accuracy, wpm and cpm are all defined
AllDefined ==
  /\ is_some(get_accuracy(self))
  /\ is_some(get_wpm(self, clock))
  /\ is_some(get_cpm(self, clock))

\* log' is log with exactly one line appended
OneLineAppended ==
  /\ Len(log') = Len(log) + 1
  /\ SubSeq(log', 1, Len(log)) = log

\* C6 as stated: end_run appends exactly one record when accuracy, wpm and
\* cpm are all defined, and leaves the log unchanged otherwise.
C6_EndRunAppendsIffDefined ==
  [][ \A wall_now \in 0..MaxNow, write_ok \in BOOLEAN :
        EndRun(wall_now, write_ok) =>
          IF AllDefined THEN OneLineAppended ELSE log' = log ]_vars

\* C6 as amended: end_run appends exactly one record when accuracy, wpm and
\* cpm are all defined, the attempt holds an open log file and the write
\* succeeds, and leaves the log unchanged otherwise; it appends nothing for
\* an attempt without a keystroke, nor for one deleted back to empty.
C6_EndRunAppendsIffDefinedAndWritable ==
  [][ \A wall_now \in 0..MaxNow, write_ok \in BOOLEAN :
        EndRun(wall_now, write_ok) =>
          /\ IF AllDefined /\ log_file /\ write_ok
               THEN OneLineAppended
               ELSE log' = log
          /\ is_none(start_time) => log' = log
          /\ typed_text = <<>> => log' = log ]_vars

\* a record was appended in this session, and the attempt has since been
\* deleted back to empty
C6_Witness ==
  /\ Len(log) >= 2
  /\ log_file
  /\ is_some(start_time)
  /\ typed_text = <<>>

\* the DataPoint get_raw_improvement reads back for a record of the attempt
\* written at wall-clock time wall_now
PointOf(tm, wall_now, now) ==
  [cpm |-> unwrap(get_cpm(tm, now)), time |-> wall_now,
   accuracy |-> unwrap(get_accuracy(tm)), wpm |-> unwrap(get_wpm(tm, now))]

\* C8: no step alters or removes a line of the log, and after an end_run
\* that appends, reading the log yields the records read before followed
\* by the record of that end_run, with its values as they were.
C8_LogAppendOnlyInOrder ==
  [][ /\ Len(log') >= Len(log)
      /\ SubSeq(log', 1, Len(log)) = log
      /\ \A wall_now \in 0..MaxNow, write_ok \in BOOLEAN :
           (EndRun(wall_now, write_ok) /\ log' # log) =>
             /\ is_some(get_raw_improvement(log, TRUE))
             /\ get_raw_improvement(log', TRUE) =
                  Some(Append(unwrap(get_raw_improvement(log, TRUE)),
                              PointOf(self, wall_now, clock))) ]_vars

\* two records appended in this session, in the order of their end_run calls
C8_Witness ==
  /\ Len(log) >= 2
  /\ log[1] # OldRecord
  /\ log[1] # log[2]
  /\ is_some(get_raw_improvement(log, TRUE))
  /\ Len(unwrap(get_raw_improvement(log, TRUE))) = Len(log)

----------------------------------------------------------------------------
(* Properties of the resampler, checked under SpecResample *)

\* a line that parses as a complete record: four fields that are numbers
WellFormed(line) ==
  /\ Len(line) >= 4
  /\ is_some(ParseU64(line[1]))
  /\ \A k \in 2..4 : is_some(ParseF32(line[k]))

\* the last call of get_improvement returned Some(series)
ReturnedSeries ==
  /\ improvement.called
  /\ improvement.out[1] = "returns"
  /\ is_some(improvement.out[2])

\* C7: if the log cannot be opened or holds any line that is not a complete
\* record, get_improvement returns None.
C7_ReadIsAllOrNothing ==
  (/\ improvement.called
   /\ \/ ~improvement.opened
      \/ \E k \in 1..Len(log) : ~WellFormed(log[k]))
    => improvement.out = Returns(None)

\* a log whose first line is a record and whose second is not, read
C7_Witness ==
  /\ improvement.called
  /\ improvement.opened
  /\ Len(log) >= 2
  /\ WellFormed(log[1])
  /\ ~WellFormed(log[2])
  /\ improvement.out = Returns(None)

\* C9: on a readable log without records, get_improvement(scale_x, scale_y)
\* returns None for every scale_x >= 1, and does not fail.
C9_EmptyLogReportsNoData ==
  (/\ improvement.called
   /\ improvement.opened
   /\ log = <<>>
   /\ improvement.scale_x >= 1)
    => improvement.out = Returns(None)

\* C10: a series that get_improvement returns has exactly scale_x entries,
\* each an integer in [0, scale_y].
C10_SeriesWithinScale ==
  ReturnedSeries =>
    LET series == unwrap(improvement.out[2])
    IN /\ Len(series) = improvement.scale_x
       /\ \A k \in 1..Len(series) : series[k] \in 0..improvement.scale_y

\* more records than buckets (the average regime), and a bucket strictly
\* between 0 and full height
C10_Witness ==
  /\ ReturnedSeries
  /\ Len(log) > improvement.scale_x
  /\ improvement.scale_x >= 2
  /\ \E k \in 1..improvement.scale_x :
       /\ unwrap(improvement.out[2])[k] > 0
       /\ unwrap(improvement.out[2])[k] < improvement.scale_y

\* C11: with scale_x = 1 and a log of n >= 1 records, get_improvement returns
\* the single bucket floor(cpm / max_cpm * scale_y) of the last record.
C11_SingleBucketIsLastRecord ==
  (/\ improvement.called
   /\ improvement.opened
   /\ improvement.scale_x = 1
   /\ Len(log) >= 1
   /\ \A k \in 1..Len(log) : WellFormed(log[k]))
    => LET raw_data == unwrap(get_raw_improvement(log, TRUE))
       IN improvement.out =
            Returns(Some(<<Scaled(raw_data[Len(raw_data)].cpm,
                                  MaxCpm(raw_data, FZero),
                                  improvement.scale_y)>>))

----------------------------------------------------------------------------
(* Properties of the attempt's statistics, checked under Spec *)

\* C12: get_cpm() and get_wpm() are None exactly while no type_char call has
\* been made on the attempt (start_time is still None), and in every later
\* state they return a finite number, also at zero elapsed time.
C12_RatesFiniteOnceStarted ==
  /\ is_none(get_cpm(self, clock)) <=> is_none(start_time)
  /\ is_none(get_wpm(self, clock)) <=> is_none(start_time)
  /\ is_some(start_time) =>
       /\ is_finite(unwrap(get_cpm(self, clock)))
       /\ is_finite(unwrap(get_wpm(self, clock)))

\* the number of positions at which typed holds the char that text holds there
Matches(text, typed) ==
  Cardinality({j \in 1..Min2(Len(text), Len(typed)) : typed[j] = text[j]})

\* C13: while typed is non-empty, the stored accuracy is the number of
\* positions where typed matches target divided by the number of code points
\* of typed, for ASCII and non-ASCII typed text alike.
C13_AccuracyOverCodePoints ==
  (~panicked /\ typed_text # <<>>) =>
    accuracy = Frac(Matches(current_text, typed_text), Len(typed_text))

----------------------------------------------------------------------------
(* The rankings of the ledger.  A HashMap iterates in an order that its      *)
(* RandomState decides, and sort_by_key is stable: a ranking is any listing  *)
(* of the entries whose keys do not increase.                                *)

\* the listings of the set S in an order without repetition
Orderings(S) ==
  {s \in [1..Cardinality(S) -> S] :
     \A i, j \in 1..Cardinality(S) : s[i] = s[j] => i = j}

\* vec.sort_by_key(|(_c, v)| Reverse(v)) leaves the values non-increasing
SortedByKeyReverse(vec) ==
  \A i, j \in 1..Len(vec) : i < j => vec[i][2] >= vec[j][2]

\* the value get_slowest_letters maps an entry to: 0 for a count of 0, else
\* (duration / count).as_millis()
MeanMillis(info) ==
  IF info.count = 0 THEN 0 ELSE info.duration \div info.count

\* get_slowest_letters listing only the letters with a count above 0
get_slowest_letters_SkipUntyped(tm) ==
  {vec \in Orderings({<<c, MeanMillis(tm.letters[c])>> :
                        c \in {k \in DOMAIN tm.letters :
                                 tm.letters[k].count > 0}}) :
     SortedByKeyReverse(vec)}

\* TextManager::get_slowest_letters: the vectors it can return
get_slowest_letters(tm) ==
  {vec \in Orderings({<<c, MeanMillis(tm.letters[c])>> :
                        c \in DOMAIN tm.letters}) :
     SortedByKeyReverse(vec)}

\* TextManager::get_most_error_letters: the vectors it can return
get_most_error_letters(tm) ==
  {vec \in Orderings({<<c, tm.letters[c].errors>> : c \in DOMAIN tm.letters}) :
     SortedByKeyReverse(vec)}

\* the chars a ranking lists
LettersOf(vec) == {vec[k][1] : k \in 1..Len(vec)}

\* the chars get_most_error_letters lists for tm
Listed(tm) == UNION {LettersOf(vec) : vec \in get_most_error_letters(tm)}

\* every vector either ranking can return for tm lists the same set of chars
SameLetters(tm) ==
  /\ \A vec \in get_slowest_letters(tm) : LettersOf(vec) = Listed(tm)
  /\ \A vec \in get_most_error_letters(tm) : LettersOf(vec) = Listed(tm)

\* this step is a type_char that appended a char to typed_text
Appended ==
  /\ current_text' = current_text
  /\ Len(typed_text') = Len(typed_text) + 1

\* this step replaced the TextManager by a new one
Replaced ==
  \E text \in Targets, open_ok \in BOOLEAN : NewAttempt(text, open_ok)

\* C14: in every reachable state get_slowest_letters() and
\* get_most_error_letters() list the same set of chars, and that set is the
\* set of target chars at the positions covered by an appended keystroke of
\* the attempt: empty for a new attempt, grown by the target char at the
\* position of each appended keystroke, and not reduced by a deletion.
C14_RankingsListCoveredTargets ==
  /\ Listed(self) = {}
  /\ [](SameLetters(self))
  /\ [][ Listed(self') =
           IF Replaced /\ ~panicked' THEN {}
           ELSE IF Appended /\ Len(typed_text') <= Len(current_text)
             THEN Listed(self) \cup {current_text[Len(typed_text')]}
           ELSE Listed(self) ]_vars

\* two target chars were covered, one of them only by a wrong key, and typed
\* has been deleted back to empty: both rankings still list the two
C14_Witness ==
  /\ typed_text = <<>>
  /\ ~panicked
  /\ Cardinality(Listed(self)) = 2
  /\ \E k \in DOMAIN letters : letters[k].count = 0
  /\ SameLetters(self)

\* C15: the list get_most_error_letters() returns is determined by the ledger
\* alone: its entries are in descending error-count order, and entries of
\* equal error count are in one fixed order, so that the same ledger always
\* gives the same list.
C15_ErrorRankingIsDetermined ==
  /\ \A vec \in get_most_error_letters(self) : SortedByKeyReverse(vec)
  /\ Cardinality(get_most_error_letters(self)) = 1

\* C16: whenever typed has fewer code points than target, type_char(c)
\* appends exactly one code point, for any char c.
C16_TypeCharAppendsWhileShort ==
  (~panicked /\ Len(typed_text) < Len(current_text)) =>
    \A c \in Keys :
      \A tm \in type_char(self, c, clock) :
        tm.typed_text = Append(typed_text, c)

\* C17: in every state reachable by type_char and del_char, del_char does not
\* fail: on empty typed it changes nothing, and on non-empty typed it removes
\* exactly the last code point and completes normally.
C17_DelCharNeverFails ==
  ~panicked =>
    \A tm \in del_char(self, clock) :
      /\ ~tm.panicked
      /\ typed_text = <<>> => tm = self
      /\ typed_text # <<>> =>
           tm.typed_text = SubSeq(typed_text, 1, Len(typed_text) - 1)

----------------------------------------------------------------------------
(* Frame effects on the ledger, checked under Spec *)

\* the entry the ledger holds for char k, or the zero entry that or_insert
\* creates
InfoOf(map, k) == IF k \in DOMAIN map THEN map[k] ELSE NewLetterInfo

\* map2 is map1 except, at most, for the entry of `key`
OnlyEntryChanged(map1, map2, key) ==
  /\ DOMAIN map2 = DOMAIN map1 \cup {key}
  /\ \A k \in DOMAIN map1 : k # key => map2[k] = map1[k]

\* C18: a type_char(c) that appends at a position p of the target changes
\* exactly one ledger entry, the one keyed by the target char at p (created
\* with zero counts if absent): if c is that char its count rises by 1 and
\* its error count is unchanged, otherwise its error count rises by 1 and its
\* count and duration are unchanged; every other entry is unchanged.
C18_TypeCharChangesOneEntry ==
  (~panicked /\ Len(typed_text) < Len(current_text)) =>
    \A c \in Keys :
      \A tm \in type_char(self, c, clock) :
        tm.typed_text = Append(typed_text, c) =>
          LET key == current_text[Len(typed_text) + 1]
              old == InfoOf(letters, key)
          IN /\ ~tm.panicked
             /\ OnlyEntryChanged(letters, tm.letters, key)
             /\ IF c = key
                  THEN /\ tm.letters[key].count = old.count + 1
                       /\ tm.letters[key].errors = old.errors
                  ELSE /\ tm.letters[key].errors = old.errors + 1
                       /\ tm.letters[key].count = old.count
                       /\ tm.letters[key].duration = old.duration

\* the ledger holds an entry, time has passed since the last keystroke, and
\* the next target char has no entry yet: a wrong key creates it with one
\* error and no duration, the right key with a count of one
C18_Witness ==
  /\ ~panicked
  /\ Len(typed_text) < Len(current_text)
  /\ DOMAIN letters # {}
  /\ current_text[Len(typed_text) + 1] \notin DOMAIN letters
  /\ is_some(last_type) /\ clock > unwrap(last_type)
  /\ \E c \in Keys : \E tm \in type_char(self, c, clock) :
       /\ c # current_text[Len(typed_text) + 1]
       /\ tm.letters[current_text[Len(typed_text) + 1]] =
            [duration |-> 0, count |-> 0, errors |-> 1]
  /\ \E c \in Keys : \E tm \in type_char(self, c, clock) :
       /\ c = current_text[Len(typed_text) + 1]
       /\ tm.letters[c].count = 1
       /\ tm.letters[c].duration > 0

\* C19: a del_char removing a char that matched the target at its position
\* lowers the count of that target char by exactly 1 and leaves its duration
\* and every error count unchanged; a del_char removing a mismatched char
\* leaves the whole ledger unchanged.
C19_DelCharLowersOneCount ==
  (~panicked /\ typed_text # <<>> /\ Len(typed_text) <= Len(current_text)) =>
    \A tm \in del_char(self, clock) :
      LET key == current_text[Len(typed_text)]
      IN /\ ~tm.panicked
         /\ IF typed_text[Len(typed_text)] = key
              THEN /\ key \in DOMAIN letters
                   /\ tm.letters =
                        [letters EXCEPT ![key].count = letters[key].count - 1]
                   /\ letters[key].count >= 1
              ELSE tm.letters = letters

\* typed ends in a char that matches the target there, typed when time had
\* passed, and the ledger holds an error on another entry: del_char lowers
\* the one count and keeps the duration and the error
C19_Witness ==
  /\ ~panicked
  /\ typed_text # <<>>
  /\ Len(typed_text) <= Len(current_text)
  /\ typed_text[Len(typed_text)] = current_text[Len(typed_text)]
  /\ letters[current_text[Len(typed_text)]].duration > 0
  /\ \E k \in DOMAIN letters :
       k # current_text[Len(typed_text)] /\ letters[k].errors > 0
  /\ \A tm \in del_char(self, clock) :
       /\ tm.letters[current_text[Len(typed_text)]].count =
            letters[current_text[Len(typed_text)]].count - 1
       /\ tm.letters[current_text[Len(typed_text)]].duration =
            letters[current_text[Len(typed_text)]].duration

----------------------------------------------------------------------------
(* The spans of get_text_parts against typed, checked under Spec *)

\* the positions (1-based char indices) of text that lie in the byte range r
PositionsIn(text, r) ==
  {j \in 1..Len(text) : r[1] <= ByteOffset(text, j) /\ ByteOffset(text, j) < r[2]}

\* position j of text is covered by typed and typed holds the same char there
MatchedAt(text, typed, j) == j <= Len(typed) /\ typed[j] = text[j]

\* position j of text is covered by typed and typed holds another char there
MismatchedAt(text, typed, j) == j <= Len(typed) /\ typed[j] # text[j]

\* the byte range of the part of text that typed does not cover
Uncovered(text, typed) ==
  <<ByteLen(SubSeq(text, 1, Min2(Len(typed), Len(text)))), ByteLen(text)>>

RECURSIVE Retyped(_, _)
\* the TextManager after new(text) and one type_char per char of typed
Retyped(text, typed) ==
  IF typed = <<>> THEN new(text, FALSE)
  ELSE CHOOSE tm \in type_char(Retyped(text, SubSeq(typed, 1, Len(typed) - 1)),
                               typed[Len(typed)], 0) : TRUE

\* C20: the spans of get_text_parts before the last one alternate matched,
\* mismatched, matched, ... starting with a matched span (empty when the
\* first typed char is wrong): every target position in a span of even index
\* (counted from 0) is one where typed equals target, every position in a
\* span of odd index is one where typed differs, and the last span is the
\* part of target that typed does not cover; the result is that of an
\* attempt that received the chars of typed only, whatever was deleted.
C20_PartsAlternateByMatch ==
  ~panicked =>
    LET parts == get_text_parts(self)
        n == Len(parts)
    IN /\ n >= 2
       /\ parts[1][1] = 0
       /\ \A k \in 1..(n - 1) : parts[k][2] = parts[k + 1][1]
       /\ \A k \in 2..(n - 1) : parts[k][1] < parts[k][2]
       /\ \A k \in 1..(n - 1) :
            \A j \in PositionsIn(current_text, parts[k]) :
              IF k % 2 = 1
                THEN MatchedAt(current_text, typed_text, j)
                ELSE MismatchedAt(current_text, typed_text, j)
       /\ parts[n] = Uncovered(current_text, typed_text)
       /\ Retyped(current_text, typed_text).typed_text = typed_text
       /\ parts = get_text_parts(Retyped(current_text, typed_text))

\* a matched, a mismatched and a second matched span before the rest, on an
\* attempt in which an earlier wrong keystroke was deleted
C20_Witness ==
  /\ ~panicked
  /\ Len(get_text_parts(self)) = 4
  /\ \A k \in 1..3 : PositionsIn(current_text, get_text_parts(self)[k]) # {}
  /\ \E k \in DOMAIN letters :
       letters[k].errors >
         Cardinality({j \in 1..Len(current_text) :
                        current_text[j] = k
                        /\ MismatchedAt(current_text, typed_text, j)})
  /\ get_text_parts(self) = get_text_parts(Retyped(current_text, typed_text))

\* the positions of the last run of text that typed covers: the covered
\* positions from which on every covered position has the match status of
\* the last covered one
LastRun(text, typed) ==
  LET covered == Min2(Len(typed), Len(text))
  IN {j \in 1..covered :
        \A i \in j..covered :
          MatchedAt(text, typed, i) <=> MatchedAt(text, typed, covered)}

\* the byte range of the char at position p of text
CharRange(text, p) == <<ByteOffset(text, p), ByteOffset(text, p) + len_utf8(text[p])>>

\* C21 as stated: while a target char is still pending, the last two spans of
\* get_text_parts are the current span, which is the single next target char
\* still pending, and the remaining span, which is all target chars after it.
C21_LastSpansArePendingAndRest ==
  (~panicked /\ Len(typed_text) < Len(current_text)) =>
    LET parts == get_text_parts(self)
        n == Len(parts)
        pending == CharRange(current_text, Len(typed_text) + 1)
    IN /\ parts[n - 1] = pending
       /\ parts[n] = <<pending[2], ByteLen(current_text)>>

\* C21 as amended: the last two spans of get_text_parts are the span of the
\* last run of covered target chars of one match status (empty when typed is
\* empty), and the remaining span, which is all target chars that typed does
\* not cover, the next pending char included.
C21_LastSpansAreLastRunAndUncovered ==
  ~panicked =>
    LET parts == get_text_parts(self)
        n == Len(parts)
    IN /\ PositionsIn(current_text, parts[n - 1]) =
            LastRun(current_text, typed_text)
       /\ parts[n - 1][2] = Uncovered(current_text, typed_text)[1]
       /\ parts[n] = Uncovered(current_text, typed_text)
       /\ Len(typed_text) < Len(current_text) =>
            Len(typed_text) + 1 \in PositionsIn(current_text, parts[n])

\* a target char is pending after a run of two covered chars: the span before
\* the last holds the two, and the last span starts with the pending char
C21_Witness ==
  /\ ~panicked
  /\ Len(typed_text) < Len(current_text)
  /\ LET parts == get_text_parts(self)
         n == Len(parts)
     IN /\ Cardinality(PositionsIn(current_text, parts[n - 1])) = 2
        /\ PositionsIn(current_text, parts[n]) = {Len(current_text)}
        /\ parts[n][1] = ByteOffset(current_text, Len(typed_text) + 1)

----------------------------------------------------------------------------
(* The word score against the words of the target, checked under Spec *)

\* the first position of the maximal run of alphanumeric chars of text that
\* ends at position hi
WordStart(text, hi) ==
  CHOOSE lo \in 1..hi :
    /\ \A i \in lo..hi : is_alphanumeric(text[i])
    /\ lo = 1 \/ ~is_alphanumeric(text[lo - 1])

\* position s of text is the separator that ends a word
EndsWord(text, s) ==
  /\ s > 1
  /\ ~is_alphanumeric(text[s])
  /\ is_alphanumeric(text[s - 1])

\* matches within the word / length of the word, for the word ending at hi
WordFraction(text, typed, hi) ==
  LET lo == WordStart(text, hi)
  IN Frac(Cardinality({i \in lo..hi : MatchedAt(text, typed, i)}), hi - lo + 1)

RECURSIVE WordScore(_, _, _)
\* the sum of the fractions of the words of text whose ending separator lies
\* at a position in 1..s that typed covers
WordScore(text, typed, s) ==
  IF s = 0 THEN FZero
  ELSE FAdd(WordScore(text, typed, s - 1),
            IF EndsWord(text, s) THEN WordFraction(text, typed, s - 1)
            ELSE FZero)

\* C22: the stored word score is the sum, over each maximal run of
\* alphanumeric target chars that typed has fully crossed, of the number of
\* matching positions inside that word divided by the length of that word,
\* each word counted once; positions outside the word do not enter it.
C22_WordScoreIsSumOfWordFractions ==
  ~panicked =>
    typed_words = WordScore(current_text, typed_text,
                            Min2(Len(typed_text), Len(current_text)))

----------------------------------------------------------------------------
(* The ledger counts against typed, checked under Spec *)

\* the number of covered positions at which typed and text both hold char c
MatchesOf(text, typed, c) ==
  Cardinality({p \in 1..Len(text) : MatchedAt(text, typed, p) /\ text[p] = c})

RECURSIVE SumCounts(_, _)
\* the sum of the counts the ledger holds for the chars in S
SumCounts(map, S) ==
  IF S = {} THEN 0
  ELSE LET k == CHOOSE x \in S : TRUE
       IN map[k].count + SumCounts(map, S \ {k})

\* C23: in every state reachable by type_char and del_char, the ledger count
\* of each char c is the number of positions covered by typed at which typed
\* and target both hold c; so the counts sum to typed_chars, and the
\* decrement of del_char takes no count below zero.
C23_CountsAreCurrentMatches ==
  ~panicked =>
    /\ \A c \in Chars :
         CountOf(letters, c) = MatchesOf(current_text, typed_text, c)
    /\ SumCounts(letters, DOMAIN letters) = typed_chars
    /\ \A tm \in del_char(self, clock) :
         \A c \in Chars : CountOf(tm.letters, c) <= CountOf(letters, c)

----------------------------------------------------------------------------
(* The texts the UI constructs its attempts on: SpecSession *)

\* the built-in text, include_str!("default_text"): a text that is not empty
DEFAULT_TEXT == <<"a", "b">>

\* what read_to_string gives for a file of a category: Some(text) for a file
\* with that content, the empty one included, None for an unreadable file
Files == { Some(<<"a">>), Some(<<>>), None }

\* the states of a category's directory: missing or unreadable, or readable
\* with a set of regular files
Dirs ==
  {[readable |-> FALSE, files |-> {}]}
    \cup {[readable |-> TRUE, files |-> S] : S \in SUBSET Files}

\* Categories::get_text on a category whose directory is `dir`: the texts it
\* can return, one per file that choose() can pick
get_text(dir) ==
  IF dir.readable /\ dir.files # {}
    THEN {IF is_some(f) THEN unwrap(f) ELSE DEFAULT_TEXT : f \in dir.files}
    ELSE {DEFAULT_TEXT}

\* the UI replaces its TextManager by TextManager::new(categories.get_text(..))
ChooseText(dir, open_ok) ==
  \E text \in get_text(dir) : NewAttempt(text, open_ok)

\* UI::new constructs the first TextManager on get_text("Basic"); the assert
\* of TextManager::new panics on an empty text
InitSession ==
  /\ \E dir \in Dirs, open_ok \in BOOLEAN :
       \E text \in get_text(dir) :
         Holds([new(text, open_ok) EXCEPT !.panicked = (ByteLen(text) = 0)])
  /\ log = <<>>
  /\ clock = 0
  /\ improvement = NoImprovement
  /\ pc = "type"

\* the keys between two constructions, and a construction: the one that
\* ends UI::end_run and the one of a category switch are the same call
NextSession ==
  \/ \E c \in LogKeys : TypeChar(c)
  \/ DelChar
  \/ Tick
  \/ \E dir \in Dirs, open_ok \in BOOLEAN : ChooseText(dir, open_ok)

SpecSession == InitSession /\ [][NextSession]_vars

\* C24: every attempt the UI constructs, at start-up, after end_run and after
\* a category switch, has a non-empty target, so that the assertion of
\* TextManager::new does not fail: get_text returns the built-in text
\* whenever the category yields no usable text, an empty file included.
C24_ConstructedTargetNeverEmpty ==
  /\ ~panicked /\ ByteLen(current_text) > 0
  /\ [][ (\E dir \in Dirs, open_ok \in BOOLEAN : ChooseText(dir, open_ok))
           => (~panicked' /\ ByteLen(current_text') > 0) ]_vars

====
